---- MODULE Spec2Model ----
(***************************************************************************)
(* Model of bggsorter (src/app.py): the per-user JSON store (load_data,     *)
(* save_data, delete_data), the /sort handler that drives a binary          *)
(* insertion of unsorted[0] into 'sorted' with the bounds low/high carried  *)
(* in the request form, and unskip_selected_games.                          *)
(***************************************************************************)
EXTENDS Integers, Sequences, FiniteSets, TLC

\* ------------------------------------------------------------------ bounds
\* number of games of the owner's collection in the sort workflow
NumGames == 3
\* longest id list handed to unskip_selected_games
MaxSelected == 2
\* longest 'sorted' list an insertion starts from in SpecInsert
MaxSortedLen == 8
\* number of games in the states handed to save_data in SpecStore
NumStored == 2
\* tokens the buffer of an open file holds before it is flushed
BufferLen == 8
\* longest 'sorted' and 'unsorted' the progress figures are computed for
MaxLength == 16
MaxUnsorted == 6

\* ------------------------------------------------------------------ values
Users == {"alice", "bob"}
Owner == "alice"

NameTable == <<"Azul", "Brass", "Catan", "Dune">>
NameOf(i) == NameTable[((i - 1) % Len(NameTable)) + 1]

\* one game as load() stores it (id and name; image and url are opaque
\* strings carried the same way as name)
Game(i) == [id |-> i, name |-> NameOf(i)]

\* Python's None
None == [none |-> TRUE]

Range(s) == {s[i] : i \in DOMAIN s}
Ids(s) == {s[i].id : i \in DOMAIN s}
IdSeq(s) == [i \in DOMAIN s |-> s[i].id]

\* --------------------------------------------------------------- JSON text
\* A file is a sequence of JSON tokens: punctuation, string literals and
\* number literals (decimal text).
Punct(c) == [t |-> "punct", v |-> c]
Str(s) == [t |-> "string", v |-> s]
Num(n) == [t |-> "number", v |-> ToString(n)]

RECURSIVE Join(_)
\* the token lists of s, separated by commas
Join(s) ==
    IF s = <<>> THEN <<>>
    ELSE IF Len(s) = 1 THEN s[1]
    ELSE s[1] \o <<Punct(",")>> \o Join(Tail(s))

DumpGame(g) ==
    <<Punct("{"), Str("id"), Punct(":"), Num(g.id), Punct(","),
      Str("name"), Punct(":"), Str(g.name), Punct("}")>>

DumpList(s) ==
    <<Punct("[")>> \o Join([i \in DOMAIN s |-> DumpGame(s[i])]) \o <<Punct("]")>>

DumpCursor(c) ==
    IF c = None THEN <<Punct("null")>>
    ELSE <<Punct("{"), Str("low"), Punct(":"), Num(c.low), Punct(","),
           Str("high"), Punct(":"), Num(c.high), Punct(","),
           Str("comparisons_made"), Punct(":"), Num(c.comparisons_made),
           Punct("}")>>

KeyOrder == <<"skipped", "sorted", "unsorted", "cursor">>

DumpMember(data, k) ==
    <<Str(k), Punct(":")>> \o
    (IF k = "cursor" THEN DumpCursor(data[k]) ELSE DumpList(data[k]))

\* mutant of json_dump: only the three lists are written
json_dump_lists_only(data) ==
    LET keys == SelectSeq(KeyOrder, LAMBDA k : k \in DOMAIN data /\ k # "cursor")
    IN  <<Punct("{")>> \o Join([i \in DOMAIN keys |-> DumpMember(data, keys[i])])
        \o <<Punct("}")>>

\* json.dump(data, file): the text written for a user_data dict
json_dump(data) ==
    LET keys == SelectSeq(KeyOrder, LAMBDA k : k \in DOMAIN data)
    IN  <<Punct("{")>> \o Join([i \in DOMAIN keys |-> DumpMember(data, keys[i])])
        \o <<Punct("}")>>

\* the decimal text of the integers the parser recognises
NumberText == [n \in (0 - 1)..(MaxSortedLen + NumGames + 1) |-> ToString(n)]

\* int(text) of a JSON number literal
ParseNumber(v) == CHOOSE n \in DOMAIN NumberText : NumberText[n] = v

ParseError == [ok |-> FALSE, v |-> None, next |-> 0]
Parsed(v, next) == [ok |-> TRUE, v |-> v, next |-> next]
TokenAt(text, i) == IF i \in DOMAIN text THEN text[i] ELSE [t |-> "eof", v |-> ""]
IsPunct(tok, c) == tok.t = "punct" /\ tok.v = c

RECURSIVE ParseValue(_, _), ParseElements(_, _, _), ParseMembers(_, _, _)

\* one JSON value starting at token i: [ok, v, next]
ParseValue(text, i) ==
    LET tok == TokenAt(text, i)
    IN  IF tok.t = "number" THEN Parsed(ParseNumber(tok.v), i + 1)
        ELSE IF tok.t = "string" THEN Parsed(tok.v, i + 1)
        ELSE IF IsPunct(tok, "null") THEN Parsed(None, i + 1)
        ELSE IF IsPunct(tok, "[") THEN
            IF IsPunct(TokenAt(text, i + 1), "]") THEN Parsed(<<>>, i + 2)
            ELSE ParseElements(text, i + 1, <<>>)
        ELSE IF IsPunct(tok, "{") THEN
            IF IsPunct(TokenAt(text, i + 1), "}") THEN Parsed(<<>>, i + 2)
            ELSE ParseMembers(text, i + 1, <<>>)
        ELSE ParseError

\* the elements of an array, after "[" or ","
ParseElements(text, i, acc) ==
    LET r == ParseValue(text, i)
    IN  IF ~r.ok THEN ParseError
        ELSE IF IsPunct(TokenAt(text, r.next), ",")
             THEN ParseElements(text, r.next + 1, Append(acc, r.v))
        ELSE IF IsPunct(TokenAt(text, r.next), "]")
             THEN Parsed(Append(acc, r.v), r.next + 1)
        ELSE ParseError

\* the members of an object, after "{" or ","; a repeated key keeps the last
ParseMembers(text, i, acc) ==
    LET key == TokenAt(text, i)
        r == ParseValue(text, i + 2)
        obj == [k \in DOMAIN acc \cup {key.v} |-> IF k = key.v THEN r.v ELSE acc[k]]
    IN  IF key.t # "string" \/ ~IsPunct(TokenAt(text, i + 1), ":") THEN ParseError
        ELSE IF ~r.ok THEN ParseError
        ELSE IF IsPunct(TokenAt(text, r.next), ",")
             THEN ParseMembers(text, r.next + 1, obj)
        ELSE IF IsPunct(TokenAt(text, r.next), "}")
             THEN Parsed(obj, r.next + 1)
        ELSE ParseError

\* json.load(file): [ok, v]; ok = FALSE is json.JSONDecodeError
json_load(text) ==
    LET r == ParseValue(text, 1)
    IN  IF r.ok /\ r.next = Len(text) + 1 THEN [ok |-> TRUE, v |-> r.v]
        ELSE [ok |-> FALSE, v |-> None]

\* ------------------------------------------------------------------- store
NoFile == [exists |-> FALSE, text |-> <<>>]
DefaultData == [skipped |-> <<>>, sorted |-> <<>>, unsorted |-> <<>>]

\* mutant of load_data: the file is opened without the os.path.exists check
load_data_unchecked(fs, username) ==
    LET r == json_load(fs[username].text)
    IN  [ok |-> fs[username].exists /\ r.ok, data |-> r.v]

\* load_data(username) on the files fs: [ok, data]; ok = FALSE is an exception
load_data(fs, username) ==
    IF fs[username].exists
    THEN LET r == json_load(fs[username].text)
         IN  [ok |-> r.ok, data |-> r.v]
    ELSE [ok |-> TRUE, data |-> DefaultData]

\* save_data(username, data): the files afterwards
save_data(fs, username, data) ==
    [fs EXCEPT ![username] = [exists |-> TRUE, text |-> json_dump(data)]]

\* mutant of delete_data: the whole data directory is emptied
delete_data_everyone(fs, username) ==
    [u \in DOMAIN fs |-> NoFile]

\* delete_data(username): the files afterwards
delete_data(fs, username) ==
    IF fs[username].exists THEN [fs EXCEPT ![username] = NoFile] ELSE fs

\* ------------------------------------------------------- Python list steps
\* s[i]: [ok, v]; ok = FALSE is IndexError; a negative i counts from the end
PyGetItem(s, i) ==
    IF 0 <= i /\ i < Len(s) THEN [ok |-> TRUE, v |-> s[i + 1]]
    ELSE IF i < 0 /\ -Len(s) <= i THEN [ok |-> TRUE, v |-> s[Len(s) + i + 1]]
    ELSE [ok |-> FALSE, v |-> None]

\* s.insert(i, x): i is clamped to 0..len(s), a negative i counts from the end
PyInsert(s, i, x) ==
    LET n == Len(s)
        j == IF i < 0 THEN (IF i + n < 0 THEN 0 ELSE i + n)
             ELSE IF i > n THEN n ELSE i
    IN  SubSeq(s, 1, j) \o <<x>> \o SubSeq(s, j + 1, n)

\* s.remove(x): drops the first element equal to x
PyRemove(s, x) ==
    LET j == CHOOSE k \in DOMAIN s : s[k] = x /\ \A m \in 1..(k - 1) : s[m] # x
    IN  SubSeq(s, 1, j - 1) \o SubSeq(s, j + 1, Len(s))

\* dict.get(key): None for a missing key
DictGet(d, key) == IF key \in DOMAIN d THEN d[key] ELSE None

\* -------------------------------------------------------- progress metrics
RECURSIVE Pow2(_)
Pow2(k) == IF k = 0 THEN 1 ELSE 2 * Pow2(k - 1)

\* math.ceil(math.log2(m)) for an integer m >= 1
CeilLog2(m) == CHOOSE k \in 0..m : Pow2(k) >= m /\ (k = 0 \/ Pow2(k - 1) < m)

\* mutant of max_comparisons: log2 of the length itself
max_comparisons_of_length(n) == CeilLog2(n)

\* mutant of max_comparisons: the logarithm is rounded down
max_comparisons_floor(n) ==
    LET k == CeilLog2(n + 1)
    IN  IF Pow2(k) = n + 1 THEN k ELSE k - 1

max_comparisons(n) == CeilLog2(n + 1)

RECURSIVE RemainingFrom(_, _, _, _)
\* the loop of total_remaining_comparisons, from iteration i with `total` so far
RemainingFrom(sorted_length, unsorted_length, i, total) ==
    IF i >= unsorted_length THEN total
    ELSE RemainingFrom(sorted_length, unsorted_length, i + 1,
                       total + CeilLog2(sorted_length + i + 1))

\* mutant of total_remaining_comparisons: 'sorted' is taken not to grow
total_remaining_fixed_length(sorted_length, unsorted_length) ==
    unsorted_length * CeilLog2(sorted_length + 1)

\* mutant of total_remaining_comparisons: the game being inserted is left out
total_remaining_after_head(sorted_length, unsorted_length) ==
    RemainingFrom(sorted_length, unsorted_length, 1, 0)

total_remaining_comparisons(sorted_length, unsorted_length) ==
    RemainingFrom(sorted_length, unsorted_length, 0, 0)

\* ------------------------------------------------------------------- /sort
NoParams == <<>>
NoForm == <<>>
FormGet(form, key, default) == IF key \in DOMAIN form THEN form[key] ELSE default

AllSortedPage == [kind |-> "all_sorted"]
RedirectPage == [kind |-> "redirect"]
ErrorPage == [kind |-> "error"]
FirstGamePage(g) == [kind |-> "sort_first_game", first_game |-> g]

\* render_template("sort_games.html", ...) of the comparison step
QuestionPage(game, sorted_games, unsorted_games, low, high, count) ==
    LET mid == (low + high) \div 2
        comparison == PyGetItem(sorted_games, mid)
    IN  IF ~comparison.ok THEN ErrorPage
        ELSE [kind |-> "sort_games",
              current_game |-> game,
              comparison_game |-> comparison.v,
              low |-> low, mid |-> mid, high |-> high,
              current_comparison_count |-> count,
              max_comparisons |-> max_comparisons(Len(sorted_games)),
              unsorted_games_count |-> Len(unsorted_games),
              total_remaining_comparisons |->
                  total_remaining_comparisons(Len(sorted_games), Len(unsorted_games))]

\* mutant of InsertStep: the head is popped before low and high are compared,
\* and saved with the question
InsertStepPopsFirst(fs, username, user_data, form) ==
    LET sorted_games == user_data.sorted
        low == FormGet(form, "low", 0)
        high == FormGet(form, "high", Len(sorted_games) - 1)
    IN  IF low <= high
        THEN [files |-> save_data(fs, username,
                           [user_data EXCEPT !.unsorted = Tail(user_data.unsorted)]),
              page |-> QuestionPage(user_data.unsorted[1], sorted_games, user_data.unsorted,
                                    low, high,
                                    FormGet(form, "current_comparison_count", 0) + 1)]
        ELSE [files |-> save_data(fs, username,
                           [user_data EXCEPT !.sorted =
                                PyInsert(sorted_games, low, user_data.unsorted[1]),
                                             !.unsorted = Tail(user_data.unsorted)]),
              page |-> RedirectPage]

\* mutant of InsertStep: the commit leaves the game in 'unsorted'
InsertStepKeepsHead(fs, username, user_data, form) ==
    LET sorted_games == user_data.sorted
        low == FormGet(form, "low", 0)
        high == FormGet(form, "high", Len(sorted_games) - 1)
    IN  IF low <= high
        THEN [files |-> fs,
              page |-> QuestionPage(user_data.unsorted[1], sorted_games, user_data.unsorted,
                                    low, high,
                                    FormGet(form, "current_comparison_count", 0) + 1)]
        ELSE [files |-> save_data(fs, username,
                           [user_data EXCEPT !.sorted =
                                PyInsert(sorted_games, low, user_data.unsorted[1])]),
              page |-> RedirectPage]

\* mutant of InsertStep: the commit inserts at high
InsertStepAtHigh(fs, username, user_data, form) ==
    LET sorted_games == user_data.sorted
        low == FormGet(form, "low", 0)
        high == FormGet(form, "high", Len(sorted_games) - 1)
    IN  IF low <= high
        THEN [files |-> fs,
              page |-> QuestionPage(user_data.unsorted[1], sorted_games, user_data.unsorted,
                                    low, high,
                                    FormGet(form, "current_comparison_count", 0) + 1)]
        ELSE [files |-> save_data(fs, username,
                           [user_data EXCEPT !.sorted =
                                PyInsert(sorted_games, high, user_data.unsorted[1]),
                                             !.unsorted = Tail(user_data.unsorted)]),
              page |-> RedirectPage]

\* mutant of InsertStep: the commit puts the game in the place of sorted[low]
\* instead of shifting the games from low on
InsertStepOverwrites(fs, username, user_data, form) ==
    LET sorted_games == user_data.sorted
        low == FormGet(form, "low", 0)
        high == FormGet(form, "high", Len(sorted_games) - 1)
    IN  IF low <= high
        THEN [files |-> fs,
              page |-> QuestionPage(user_data.unsorted[1], sorted_games, user_data.unsorted,
                                    low, high,
                                    FormGet(form, "current_comparison_count", 0) + 1)]
        ELSE [files |-> save_data(fs, username,
                           [user_data EXCEPT !.sorted =
                                IF 0 <= low /\ low < Len(sorted_games)
                                THEN [sorted_games EXCEPT ![low + 1] = user_data.unsorted[1]]
                                ELSE PyInsert(sorted_games, low, user_data.unsorted[1]),
                                             !.unsorted = Tail(user_data.unsorted)]),
              page |-> RedirectPage]

\* mutant of InsertStep: a mid sent with the form is used for the question
InsertStepTrustsMid(fs, username, user_data, form) ==
    LET sorted_games == user_data.sorted
        low == FormGet(form, "low", 0)
        high == FormGet(form, "high", Len(sorted_games) - 1)
        mid == FormGet(form, "mid", (low + high) \div 2)
        asked == QuestionPage(user_data.unsorted[1], sorted_games, user_data.unsorted,
                              low, high,
                              FormGet(form, "current_comparison_count", 0) + 1)
        comparison == PyGetItem(sorted_games, mid)
    IN  IF low <= high
        THEN [files |-> fs,
              page |-> IF asked.kind # "sort_games" \/ ~comparison.ok THEN ErrorPage
                       ELSE [asked EXCEPT !.mid = mid, !.comparison_game = comparison.v]]
        ELSE [files |-> save_data(fs, username,
                           [user_data EXCEPT !.sorted =
                                PyInsert(sorted_games, low, user_data.unsorted[1]),
                                             !.unsorted = Tail(user_data.unsorted)]),
              page |-> RedirectPage]

\* mutant of InsertStep: a form with low > high gets the first question of the
\* insertion instead of the commit
InsertStepAsksAgain(fs, username, user_data, form) ==
    LET sorted_games == user_data.sorted
        low == FormGet(form, "low", 0)
        high == FormGet(form, "high", Len(sorted_games) - 1)
    IN  [files |-> fs,
         page |-> IF low <= high
                  THEN QuestionPage(user_data.unsorted[1], sorted_games, user_data.unsorted,
                                    low, high,
                                    FormGet(form, "current_comparison_count", 0) + 1)
                  ELSE QuestionPage(user_data.unsorted[1], sorted_games, user_data.unsorted,
                                    0, Len(sorted_games) - 1, 1)]

\* mutant of InsertStep: the commit removes the game from 'unsorted' without
\* ranking it
InsertStepDropsGame(fs, username, user_data, form) ==
    LET sorted_games == user_data.sorted
        low == FormGet(form, "low", 0)
        high == FormGet(form, "high", Len(sorted_games) - 1)
    IN  IF low <= high
        THEN [files |-> fs,
              page |-> QuestionPage(user_data.unsorted[1], sorted_games, user_data.unsorted,
                                    low, high,
                                    FormGet(form, "current_comparison_count", 0) + 1)]
        ELSE [files |-> save_data(fs, username,
                           [user_data EXCEPT !.unsorted = Tail(user_data.unsorted)]),
              page |-> RedirectPage]

\* the binary-search step of sort_games (the code after the first-game prompt)
InsertStep(fs, username, user_data, form) ==
    LET unsorted_games == user_data.unsorted
        sorted_games == user_data.sorted
        game == unsorted_games[1]
        low == FormGet(form, "low", 0)
        high == FormGet(form, "high", Len(sorted_games) - 1)
        current_comparison_count == FormGet(form, "current_comparison_count", 0) + 1
    IN  IF low <= high
        THEN [files |-> fs,
              page |-> QuestionPage(game, sorted_games, unsorted_games, low, high,
                                    current_comparison_count)]
        ELSE [files |-> save_data(fs, username,
                           [user_data EXCEPT !.sorted = PyInsert(sorted_games, low, game),
                                             !.unsorted = Tail(unsorted_games)]),
              page |-> RedirectPage]

\* the skip branch of sort_games: the head of 'unsorted' goes to 'skipped'
SkipStep(fs, username, user_data) ==
    LET skipped_games == DictGet(user_data, "skipped")
    IN  IF "skipped" \notin DOMAIN user_data THEN [files |-> fs, page |-> ErrorPage]
        ELSE [files |-> save_data(fs, username,
                           [user_data EXCEPT !.skipped = Append(skipped_games, user_data.unsorted[1]),
                                             !.unsorted = Tail(user_data.unsorted)]),
              page |-> RedirectPage]

\* mutant of AddFirstStep: the head is ranked but stays in 'unsorted'
AddFirstStepKeepsHead(fs, username, user_data) ==
    [files |-> save_data(fs, username,
                  [user_data EXCEPT !.sorted = Append(user_data.sorted, user_data.unsorted[1])]),
     page |-> RedirectPage]

\* the add_first branch of sort_games
AddFirstStep(fs, username, user_data) ==
    [files |-> save_data(fs, username,
                  [user_data EXCEPT !.sorted = Append(user_data.sorted, user_data.unsorted[1]),
                                    !.unsorted = Tail(user_data.unsorted)]),
     page |-> RedirectPage]

\* mutant of sort_games: the first-game prompt is missing
sort_games_no_prompt(fs, username, args, form) ==
    LET loaded == load_data(fs, username)
        user_data == loaded.data
    IN  IF ~loaded.ok THEN [files |-> fs, page |-> ErrorPage]
        ELSE IF user_data.unsorted = <<>> THEN [files |-> fs, page |-> AllSortedPage]
        ELSE IF user_data.sorted = <<>> /\ "add_first" \in DOMAIN args
             THEN AddFirstStep(fs, username, user_data)
        ELSE IF "skip" \in DOMAIN args THEN SkipStep(fs, username, user_data)
        ELSE InsertStep(fs, username, user_data, form)

\* sort_games() for one request: args are the query parameters, form the form
\* fields; the result is the files afterwards and the response
sort_games(fs, username, args, form) ==
    LET loaded == load_data(fs, username)
        user_data == loaded.data
    IN  IF ~loaded.ok THEN [files |-> fs, page |-> ErrorPage]
        ELSE IF user_data.unsorted = <<>> THEN [files |-> fs, page |-> AllSortedPage]
        ELSE IF user_data.sorted = <<>> /\ "add_first" \in DOMAIN args
             THEN AddFirstStep(fs, username, user_data)
        ELSE IF "skip" \in DOMAIN args THEN SkipStep(fs, username, user_data)
        ELSE IF user_data.sorted = <<>>
             THEN [files |-> fs, page |-> FirstGamePage(user_data.unsorted[1])]
        ELSE InsertStep(fs, username, user_data, form)

\* ------------------------------------------------------------------ unskip
RECURSIVE UnskipLoopFront(_, _, _)
\* mutant of UnskipLoop: a restored game goes to the head of 'unsorted'
UnskipLoopFront(skipped_games, unsorted_games, selected_games) ==
    IF selected_games = <<>>
    THEN [skipped |-> skipped_games, unsorted |-> unsorted_games]
    ELSE LET game_id == Head(selected_games)
             hits == {k \in DOMAIN skipped_games : skipped_games[k].id = game_id}
         IN  IF hits = {}
             THEN UnskipLoopFront(skipped_games, unsorted_games, Tail(selected_games))
             ELSE LET first == CHOOSE k \in hits : \A m \in hits : k <= m
                      game == skipped_games[first]
                  IN  UnskipLoopFront(PyRemove(skipped_games, game),
                                      <<game>> \o unsorted_games,
                                      Tail(selected_games))

RECURSIVE UnskipLoopKeeps(_, _, _)
\* mutant of UnskipLoop: a restored game stays in 'skipped'
UnskipLoopKeeps(skipped_games, unsorted_games, selected_games) ==
    IF selected_games = <<>>
    THEN [skipped |-> skipped_games, unsorted |-> unsorted_games]
    ELSE LET game_id == Head(selected_games)
             hits == {k \in DOMAIN skipped_games : skipped_games[k].id = game_id}
         IN  IF hits = {}
             THEN UnskipLoopKeeps(skipped_games, unsorted_games, Tail(selected_games))
             ELSE LET first == CHOOSE k \in hits : \A m \in hits : k <= m
                  IN  UnskipLoopKeeps(skipped_games,
                                      Append(unsorted_games, skipped_games[first]),
                                      Tail(selected_games))

RECURSIVE UnskipLoop(_, _, _)
\* the loops of unskip_selected_games over the remaining selected ids
UnskipLoop(skipped_games, unsorted_games, selected_games) ==
    IF selected_games = <<>>
    THEN [skipped |-> skipped_games, unsorted |-> unsorted_games]
    ELSE LET game_id == Head(selected_games)
             hits == {k \in DOMAIN skipped_games : skipped_games[k].id = game_id}
         IN  IF hits = {}
             THEN UnskipLoop(skipped_games, unsorted_games, Tail(selected_games))
             ELSE LET first == CHOOSE k \in hits : \A m \in hits : k <= m
                      game == skipped_games[first]
                  IN  UnskipLoop(PyRemove(skipped_games, game),
                                 Append(unsorted_games, game),
                                 Tail(selected_games))

\* unskip_selected_games(username, selected_games): [ok, files]
unskip_selected_games(fs, username, selected_games) ==
    LET loaded == load_data(fs, username)
        user_data == loaded.data
    IN  IF ~loaded.ok \/ "skipped" \notin DOMAIN user_data
        THEN [ok |-> FALSE, files |-> fs]
        ELSE LET moved == UnskipLoop(user_data.skipped, user_data.unsorted,
                                     selected_games)
             IN  [ok |-> TRUE,
                  files |-> save_data(fs, username,
                               [user_data EXCEPT !.skipped = moved.skipped,
                                                 !.unsorted = moved.unsorted])]

\* ------------------------------------------------------------ / and /load
\* what get_games_played_for_user(username, order) comes back with: None after
\* a failed request, BGGUserError raised, or the parsed games (no id twice, in
\* the order asked for), possibly none
FetchedGames(order) == [kind |-> "games", games |-> [i \in DOMAIN order |-> Game(order[i])]]

LoadRedirect == [kind |-> "redirect_load"]
GamesRedirect == [kind |-> "redirect_games"]
IndexPage == [kind |-> "index"]

\* index() for a request that names a user; user is what check_bgg_user_exists
\* finds: "found", "missing", or "raise" for BGGUserError
index(fs, username, user) ==
    IF user # "found" THEN IndexPage
    ELSE LET loaded == load_data(fs, username)
         IN  IF ~loaded.ok THEN ErrorPage
             ELSE IF loaded.data.unsorted = <<>> THEN LoadRedirect
             ELSE GamesRedirect

\* mutant of load: the fetched games are added behind the stored 'unsorted'
load_appends(fs, username, fetched) ==
    LET loaded == load_data(fs, username)
        user_data == loaded.data
    IN  IF ~loaded.ok \/ fetched.kind = "raise" THEN [files |-> fs, page |-> ErrorPage]
        ELSE IF fetched.kind = "games" /\ fetched.games # <<>>
             THEN [files |-> save_data(fs, username,
                                [user_data EXCEPT !.unsorted = @ \o fetched.games]),
                   page |-> GamesRedirect]
        ELSE [files |-> fs, page |-> GamesRedirect]

\* load() for a POST, fetched being the outcome of get_games_played_for_user
load(fs, username, fetched) ==
    LET loaded == load_data(fs, username)
        user_data == loaded.data
    IN  IF ~loaded.ok \/ fetched.kind = "raise" THEN [files |-> fs, page |-> ErrorPage]
        ELSE IF fetched.kind = "games" /\ fetched.games # <<>>
             THEN [files |-> save_data(fs, username,
                                [user_data EXCEPT !.unsorted = fetched.games]),
                   page |-> GamesRedirect]
        ELSE [files |-> fs, page |-> GamesRedirect]

\* ------------------------------------------------------------------ client
\* mutant of Prescribed: the compared position stays inside the new bounds
PrescribedKeepsMid(p, better) ==
    IF better = "current"
    THEN [low |-> p.low, high |-> p.mid,
          current_comparison_count |-> p.current_comparison_count]
    ELSE [low |-> p.mid, high |-> p.high,
          current_comparison_count |-> p.current_comparison_count]

\* the form the comparison page submits for an answer: "current" (the current
\* game is better) narrows high, "comparison" (sorted[mid] is better) narrows low
Prescribed(p, better) ==
    IF better = "current"
    THEN [low |-> p.low, high |-> p.mid - 1,
          current_comparison_count |-> p.current_comparison_count]
    ELSE [low |-> p.mid + 1, high |-> p.high,
          current_comparison_count |-> p.current_comparison_count]

\* the values a replayed or forged form may carry for low and high
ForgedRange == (0 - 1)..NumGames

\* the id lists a caller may hand to unskip_selected_games; NumGames + 1 is the
\* id of no game
RECURSIVE SeqsUpTo(_, _)
SeqsUpTo(S, n) ==
    IF n = 0 THEN {<<>>}
    ELSE LET shorter == SeqsUpTo(S, n - 1)
         IN  shorter \cup {Append(q, x) : q \in shorter, x \in S}

Selections == SeqsUpTo(1..(NumGames + 1), MaxSelected)

\* ------------------------------------------------------------------- state
\* files: the JSON file of each user (DATA_DIR/<username>.json)
\* page:  the last response sent to the owner's browser
\* req:   the last request served, with what the claims need to know of it
\* trust: "faithful" while every form posted so far was one the displayed
\*        question prescribed and gave the answer of the id order (the lower
\*        id is the better game), "unfaithful" afterwards
\* threads: where each request served concurrently stands (idle when requests
\*        are served one after the other)
\* ret:   what the last call of a store function returned (None for save_data
\*        and delete_data)
VARIABLES files, page, req, trust, ret, threads
vars == <<files, page, req, trust, ret, threads>>

\* the requests being served at the same time, each in its own thread
Threads == {"t1", "t2"}
Idle == [t \in Threads |-> [pc |-> "idle"]]

Stored(u) == load_data(files, u).data

\* form is one of the two forms page p prescribes, and p asks about the head
\* of 'unsorted' as stored in fs
AnswersPage(p, fs, u, form) ==
    /\ p.kind = "sort_games"
    /\ \E better \in {"current", "comparison"} :
          /\ form.low = Prescribed(p, better).low
          /\ form.high = Prescribed(p, better).high
    /\ LET loaded == load_data(fs, u)
       IN  /\ loaded.ok
           /\ loaded.data.unsorted # <<>>
           /\ loaded.data.unsorted[1] = p.current_game

\* the answer the form gives to page p agrees with the id order
Truthful(p, form) ==
    IF form.high = p.mid - 1 /\ form.low = p.low
    THEN p.current_game.id < p.comparison_game.id
    ELSE p.comparison_game.id < p.current_game.id

TrustAfter(p, fs, u, form) ==
    IF trust = "faithful" /\ AnswersPage(p, fs, u, form) /\ Truthful(p, form)
    THEN "faithful"
    ELSE "unfaithful"

\* one /sort request of user u and its response
Serve(u, r, args, form) ==
    LET out == sort_games(files, u, args, form)
    IN  /\ files' = out.files
        /\ page' = out.page
        /\ req' = r
        /\ trust' = IF DOMAIN form = {} THEN trust
                    ELSE TrustAfter(page, files, u, form)
        /\ UNCHANGED <<ret, threads>>

\* GET /sort?username=u
Get(u) ==
    /\ u \in Users
    /\ Serve(u, [op |-> "get", username |-> u], NoParams, NoForm)

\* GET /sort?username=u&add_first=1
AddFirst(u) ==
    /\ u \in Users
    /\ Serve(u, [op |-> "add_first", username |-> u], [add_first |-> "1"], NoForm)

\* GET /sort?username=u&skip=<id>: the request names the game to set aside
Skip(u, id) ==
    /\ u \in Users
    /\ Serve(u, [op |-> "skip", username |-> u, id |-> id], [skip |-> id], NoForm)

\* POST /sort with the form the displayed question prescribes for the answer;
\* count is the number of questions of this insertion asked so far
Answer(u, better) ==
    /\ page.kind = "sort_games"
    /\ Serve(u, [op |-> "answer", username |-> u,
                  count |-> page.current_comparison_count,
                  prescribed |-> AnswersPage(page, files, u, Prescribed(page, better))],
             NoParams, Prescribed(page, better))

\* POST /sort with any low/high: a replayed, reordered or forged form
Post(u, low, high, count) ==
    LET form == [low |-> low, high |-> high, current_comparison_count |-> count]
    IN  /\ u \in Users
        /\ Serve(u, [op |-> "post", username |-> u, count |-> count,
                      prescribed |-> AnswersPage(page, files, u, form)],
                 NoParams, form)

\* a call of unskip_selected_games(u, ids), as POST /unskip makes it for a
\* non-empty selection; `moved` counts the games the call moved, `again` says the call repeats the one just before and `first_moved`
\* what that one moved
Unskip(u, ids) ==
    LET out == unskip_selected_games(files, u, ids)
        again == req.op = "unskip" /\ req.username = u /\ req.ids = ids
    IN  /\ files' = out.files
        /\ page' = IF out.ok THEN RedirectPage ELSE ErrorPage
        /\ req' = [op |-> "unskip", username |-> u, ids |-> ids,
                   again |-> again,
                   moved |-> Len(load_data(out.files, u).data.unsorted)
                             - Len(load_data(files, u).data.unsorted),
                   first_moved |-> IF again THEN req.moved ELSE 0]
        /\ UNCHANGED <<trust, ret, threads>>

\* ------------------------------------------------------- the sort workflow
RECURSIVE Perms(_)
Perms(S) ==
    IF S = {} THEN {<<>>}
    ELSE UNION {{<<x>> \o q : q \in Perms(S \ {x})} : x \in S}

\* load() POST for a new user: 'unsorted' is the fetched list, in fetched order
Populated(order) ==
    [skipped |-> <<>>, sorted |-> <<>>,
     unsorted |-> [i \in DOMAIN order |-> Game(order[i])]]

Init ==
    /\ \E order \in Perms(1..NumGames) :
          files = save_data([u \in Users |-> NoFile], Owner, Populated(order))
    /\ page = [kind |-> "none"]
    /\ req = [op |-> "none", username |-> Owner]
    /\ trust = "faithful"
    /\ ret = None
    /\ threads = Idle

Next ==
    \/ Get(Owner)
    \/ AddFirst(Owner)
    \/ \E id \in 1..NumGames : Skip(Owner, id)
    \/ \E better \in {"current", "comparison"} : Answer(Owner, better)
    \/ \E low \in ForgedRange, high \in ForgedRange : Post(Owner, low, high, 0)
    \/ \E id \in 1..(NumGames + 1) : Unskip(Owner, <<id>>)

Spec == Init /\ [][Next]_vars

\* ------------------------------------------- one insertion, honest browser
GamesFrom(a, b) == [i \in 1..(b - a + 1) |-> Game(a + i - 1)]

\* 'sorted' holds n ranked games and two games wait in 'unsorted'
InitInsert ==
    /\ \E n \in 0..MaxSortedLen :
          files = save_data([u \in Users |-> NoFile], Owner,
                            [skipped |-> <<>>, sorted |-> GamesFrom(1, n),
                             unsorted |-> GamesFrom(n + 1, n + 2)])
    /\ page = [kind |-> "none"]
    /\ req = [op |-> "none", username |-> Owner]
    /\ trust = "faithful"
    /\ ret = None
    /\ threads = Idle

NextInsert ==
    \/ Get(Owner)
    \/ AddFirst(Owner)
    \/ \E id \in 1..NumGames : Skip(Owner, id)
    \/ \E better \in {"current", "comparison"} : Answer(Owner, better)

SpecInsert == InitInsert /\ [][NextInsert]_vars

\* ------------------------------------- unskip_selected_games on any state
\* every way to lay NumGames games out over the three lists
Layouts ==
    {[skipped |-> [i \in 1..a |-> Game(order[i])],
      sorted |-> [i \in 1..(b - a) |-> Game(order[a + i])],
      unsorted |-> [i \in 1..(NumGames - b) |-> Game(order[b + i])]] :
        order \in Perms(1..NumGames),
        <<a, b>> \in {c \in (0..NumGames) \X (0..NumGames) : c[1] <= c[2]}}

InitUnskip ==
    /\ \/ files = [u \in Users |-> NoFile]
       \/ \E data \in Layouts : files = save_data([u \in Users |-> NoFile], Owner, data)
    /\ page = [kind |-> "none"]
    /\ req = [op |-> "none", username |-> Owner]
    /\ trust = "faithful"
    /\ ret = None
    /\ threads = Idle

\* the first call, with any id list
UnskipFirst(ids) == req.op = "none" /\ Unskip(Owner, ids)

\* the same call once more
UnskipAgain == req.op = "unskip" /\ ~req.again /\ Unskip(Owner, req.ids)

NextUnskip ==
    \/ \E ids \in Selections : UnskipFirst(ids)
    \/ UnskipAgain

SpecUnskip == InitUnskip /\ [][NextUnskip]_vars

\* ---------------------------------------------------- the store by itself
Cursors == {None, [low |-> 0, high |-> NumStored, comparisons_made |-> 1]}

\* the collection states handed to save_data: NumStored games laid out over
\* the three lists, without a cursor key, with cursor null, or with an active
\* cursor
StoreStates ==
    LET lists == {[skipped |-> [i \in 1..a |-> Game(NumStored + 1 - i)],
                   sorted |-> [i \in 1..(b - a) |-> Game(NumStored + 1 - a - i)],
                   unsorted |-> [i \in 1..(NumStored - b) |-> Game(NumStored + 1 - b - i)]] :
                     <<a, b>> \in {c \in (0..NumStored) \X (0..NumStored) : c[1] <= c[2]}}
    IN  lists \cup
        {[skipped |-> d.skipped, sorted |-> d.sorted, unsorted |-> d.unsorted,
          cursor |-> c] : d \in lists, c \in Cursors}

\* save_data(u, data)
SaveData(u, data) ==
    /\ files' = save_data(files, u, data)
    /\ req' = [op |-> "save", username |-> u, data |-> data,
               replaced |-> files[u].exists]
    /\ ret' = None
    /\ UNCHANGED <<page, trust, threads>>

\* load_data(u); `saved` is the state handed to save_data(u, ...) when that was
\* the call just before, None otherwise
LoadData(u) ==
    /\ ret' = load_data(files, u)
    /\ req' = [op |-> "load", username |-> u,
               saved |-> IF req.op = "save" /\ req.username = u
                         THEN [data |-> req.data, replaced |-> req.replaced]
                         ELSE None]
    /\ UNCHANGED <<files, page, trust, threads>>

\* delete_data(u); `existed` says whether u had a file before the call
DeleteData(u) ==
    /\ files' = delete_data(files, u)
    /\ req' = [op |-> "delete", username |-> u, existed |-> files[u].exists]
    /\ ret' = None
    /\ UNCHANGED <<page, trust, threads>>

InitStore ==
    /\ files = [u \in Users |-> NoFile]
    /\ page = [kind |-> "none"]
    /\ req = [op |-> "none", username |-> Owner]
    /\ trust = "faithful"
    /\ ret = None
    /\ threads = Idle

NextStore ==
    \/ \E u \in Users, data \in StoreStates : SaveData(u, data)
    \/ \E u \in Users : LoadData(u)
    \/ \E u \in Users : DeleteData(u)

SpecStore == InitStore /\ [][NextStore]_vars

\* ------------------------------------ one /sort request, any parameters
\* the query parameters a /sort request may carry besides username
ArgSets == {[k \in S |-> "1"] : S \in SUBSET {"add_first", "skip"}}

\* the forms a /sort request may carry: none, or any low/high
Forms ==
    {NoForm} \cup
    {[low |-> low, high |-> high, current_comparison_count |-> 0] :
        low \in ForgedRange, high \in ForgedRange}

\* a /sort request with query parameters args and form fields form
Request(u, args, form) ==
    /\ req.op = "none"
    /\ Serve(u, [op |-> "request", username |-> u, args |-> DOMAIN args,
                  form |-> form], args, form)

NextParams == \E args \in ArgSets, form \in Forms : Request(Owner, args, form)

\* one request on any stored state: InitUnskip is every layout of the games
\* over the three lists, or no file at all
SpecParams == InitUnskip /\ [][NextParams]_vars

\* ------------------------------------- save_data beside a load_data
\* save_data step by step. open(file_path, "w") creates the file or empties it;
\* `old` is the file as it was, `rest` the text json.dump has still to deliver
SaveOpen(t, u, data) ==
    /\ threads[t].pc = "idle"
    /\ files' = [files EXCEPT ![u] = [exists |-> TRUE, text |-> <<>>]]
    /\ threads' = [threads EXCEPT ![t] =
                      [pc |-> "writing", username |-> u, data |-> data,
                       old |-> files[u], rest |-> json_dump(data)]]
    /\ UNCHANGED <<page, req, trust, ret>>

\* the buffered file object passes a full buffer of BufferLen tokens on to the
\* file
SaveWrite(t) ==
    /\ threads[t].pc = "writing"
    /\ Len(threads[t].rest) > BufferLen
    /\ LET u == threads[t].username
           rest == threads[t].rest
       IN  /\ files' = [files EXCEPT ![u].text = @ \o SubSeq(rest, 1, BufferLen)]
           /\ threads' = [threads EXCEPT ![t].rest = SubSeq(rest, BufferLen + 1, Len(rest))]
    /\ UNCHANGED <<page, req, trust, ret>>

\* leaving the with block flushes what is left and closes the file
SaveClose(t) ==
    /\ threads[t].pc = "writing"
    /\ files' = [files EXCEPT ![threads[t].username].text = @ \o threads[t].rest]
    /\ threads' = [threads EXCEPT ![t] = [pc |-> "idle"]]
    /\ UNCHANGED <<page, req, trust, ret>>

\* the owner has no file or any stored state
InitAtomic ==
    /\ \/ files = [u \in Users |-> NoFile]
       \/ \E data \in StoreStates :
             files = save_data([u \in Users |-> NoFile], Owner, data)
    /\ page = [kind |-> "none"]
    /\ req = [op |-> "none", username |-> Owner]
    /\ trust = "faithful"
    /\ ret = None
    /\ threads = Idle

\* thread t1 saves while load_data runs in another request
NextAtomic ==
    \/ \E data \in StoreStates : SaveOpen("t1", Owner, data)
    \/ SaveWrite("t1")
    \/ SaveClose("t1")
    \/ LoadData(Owner)

SpecAtomic == InitAtomic /\ [][NextAtomic]_vars

\* --------------------------------------------- two requests side by side
\* the state-changing requests that may be served at the same time: /sort with
\* skip, with add_first or with a committing form, and an unskip of one id
Ops ==
    {[kind |-> "sort", args |-> [skip |-> "1"], form |-> NoForm],
     [kind |-> "sort", args |-> [add_first |-> "1"], form |-> NoForm],
     [kind |-> "sort", args |-> NoParams,
      form |-> [low |-> 0, high |-> 0 - 1, current_comparison_count |-> 1]]}
    \cup {[kind |-> "unskip", ids |-> <<id>>] : id \in 1..NumGames}

\* request op served on the files fs: the files it leaves and whether it
\* reached save_data
Handle(op, fs, u) ==
    IF op.kind = "sort"
    THEN LET out == sort_games(fs, u, op.args, op.form)
         IN  [files |-> out.files, saves |-> out.page.kind = "redirect"]
    ELSE LET out == unskip_selected_games(fs, u, op.ids)
         IN  [files |-> out.files, saves |-> out.ok]

\* thread t takes up request op: its load_data returns the state as stored
\* now (`seen`), on which the handler then works in memory; `first` says that
\* no other request had been taken up before
Begin(t, u, op) ==
    /\ threads[t].pc = "idle"
    /\ threads' = [threads EXCEPT ![t] =
                      [pc |-> "loaded", username |-> u, op |-> op, seen |-> files,
                       first |-> \A o \in Threads \ {t} : threads[o].pc = "idle"]]
    /\ UNCHANGED <<files, page, req, trust, ret>>

\* thread t finishes its request: if the handler saves, save_data writes the
\* state it worked out from what it had loaded
End(t) ==
    /\ threads[t].pc = "loaded"
    /\ LET u == threads[t].username
           out == Handle(threads[t].op, threads[t].seen, u)
       IN  files' = IF out.saves THEN [files EXCEPT ![u] = out.files[u]] ELSE files
    /\ threads' = [threads EXCEPT ![t].pc = "done"]
    /\ UNCHANGED <<page, req, trust, ret>>

NextRace ==
    \/ \E t \in Threads, op \in Ops : Begin(t, Owner, op)
    \/ \E t \in Threads : End(t)

\* two requests, one per thread, on any stored state
SpecRace == InitUnskip /\ [][NextRace]_vars

\* the owner's lists as stored
Unsorted == Stored(Owner).unsorted
Sorted == Stored(Owner).sorted
Skipped == Stored(Owner).skipped
AllLists == Unsorted \o Sorted \o Skipped

\* --------------------------------------------------- visiting / and /load
\* every outcome of get_games_played_for_user for a collection of NumGames games
Fetches ==
    {[kind |-> "none"], [kind |-> "raise"], FetchedGames(<<>>)} \cup
    {FetchedGames(order) : order \in Perms(1..NumGames)}

\* GET /?username=u
Index(u, user) ==
    /\ page' = index(files, u, user)
    /\ req' = [op |-> "index", username |-> u]
    /\ UNCHANGED <<files, trust, ret, threads>>

\* POST /load for u
LoadPost(u, fetched) ==
    LET out == load(files, u, fetched)
    IN  /\ files' = out.files
        /\ page' = out.page
        /\ req' = [op |-> "post_load", username |-> u, fetched |-> fetched]
        /\ UNCHANGED <<trust, ret, threads>>

\* the skip link of the page on display names the head of 'unsorted'
SkipHead(u) ==
    /\ Stored(u).unsorted # <<>>
    /\ Skip(u, Stored(u).unsorted[1].id)

\* a new user; the browser posts to /load when index() has sent it there, and
\* the collection is fetched again only while at most NumGames games are
\* ranked or set aside
InitRevisit == InitStore

NextRevisit ==
    \/ \E user \in {"found", "missing", "raise"} : Index(Owner, user)
    \/ /\ page.kind = "redirect_load"
       /\ Len(Sorted) + Len(Skipped) <= NumGames
       /\ \E fetched \in Fetches : LoadPost(Owner, fetched)
    \/ Get(Owner)
    \/ AddFirst(Owner)
    \/ SkipHead(Owner)
    \/ \E better \in {"current", "comparison"} : Answer(Owner, better)

SpecRevisit == InitRevisit /\ [][NextRevisit]_vars

\* one POST /load on any stored state
LoadOnce(fetched) == req.op = "none" /\ LoadPost(Owner, fetched)

NextLoad == \E fetched \in Fetches : LoadOnce(fetched)

SpecLoad == InitUnskip /\ [][NextLoad]_vars

\* --------------------------------------------------- the progress figures
\* max_comparisons(n) is called
MaxComparisons(n) ==
    /\ ret' = max_comparisons(n)
    /\ req' = [op |-> "max_comparisons", n |-> n]
    /\ UNCHANGED <<files, page, trust, threads>>

\* total_remaining_comparisons(sorted_length, unsorted_length) is called
TotalRemaining(sorted_length, unsorted_length) ==
    /\ ret' = total_remaining_comparisons(sorted_length, unsorted_length)
    /\ req' = [op |-> "total_remaining", sorted_length |-> sorted_length,
               unsorted_length |-> unsorted_length]
    /\ UNCHANGED <<files, page, trust, threads>>

NextMetrics ==
    \/ \E n \in 0..MaxLength : MaxComparisons(n)
    \/ \E sorted_length \in 0..MaxLength, unsorted_length \in 0..MaxUnsorted :
          TotalRemaining(sorted_length, unsorted_length)

SpecMetrics == InitStore /\ [][NextMetrics]_vars

\* ----------------------------- one /sort request, any form fields at all
\* the forms a caller may post: none, low alone, high alone, or low and high
\* with a mid of the caller's own choosing
QuestionForms ==
    {NoForm}
    \cup {[low |-> low] : low \in ForgedRange}
    \cup {[high |-> high] : high \in ForgedRange}
    \cup {[low |-> low, high |-> high, mid |-> mid] :
             low \in ForgedRange, high \in ForgedRange, mid \in ForgedRange}

\* POST /sort with the form fields form and no query parameter
Ask(u, form) ==
    /\ req.op = "none"
    /\ Serve(u, [op |-> "ask", username |-> u, form |-> form], NoParams, form)

NextQuestion == \E form \in QuestionForms : Ask(Owner, form)

SpecQuestion == InitUnskip /\ [][NextQuestion]_vars

\* ------------------------------------- a stored state of the older shape
\* the files an earlier version of the program wrote: 'sorted' and 'unsorted'
\* only, holding the games in any order and any split
OlderStates ==
    {[sorted |-> [i \in 1..a |-> Game(order[i])],
      unsorted |-> [i \in 1..(NumGames - a) |-> Game(order[a + i])]] :
        order \in Perms(1..NumGames), a \in 0..NumGames}

InitOlder ==
    /\ \E data \in OlderStates : files = save_data([u \in Users |-> NoFile], Owner, data)
    /\ page = [kind |-> "none"]
    /\ req = [op |-> "none", username |-> Owner]
    /\ trust = "faithful"
    /\ ret = None
    /\ threads = Idle

NextOlder ==
    \/ LoadData(Owner)
    \/ Skip(Owner, 1)
    \/ \E ids \in Selections : Unskip(Owner, ids)

SpecOlder == InitOlder /\ [][NextOlder]_vars

\* ------------------------------------------- a whole run, honest browser
\* the stored states a run starts from: n ranked games, m waiting ones whose
\* head has not been compared yet, and k games set aside
RunStates ==
    {[skipped |-> GamesFrom(n + m + 1, n + m + k),
      sorted |-> GamesFrom(1, n),
      unsorted |-> GamesFrom(n + 1, n + m)] :
        n \in 0..NumGames, m \in 1..NumGames, k \in 0..1}

\* req counts the answers given since the start (answered) beside the value
\* of total_remaining_comparisons at the start (bound) and the lists of the
\* start (start)
InitRun ==
    /\ \E data \in RunStates :
          /\ files = save_data([u \in Users |-> NoFile], Owner, data)
          /\ req = [op |-> "start", username |-> Owner, answered |-> 0,
                    bound |-> total_remaining_comparisons(Len(data.sorted),
                                                          Len(data.unsorted)),
                    start |-> data]
    /\ page = [kind |-> "none"]
    /\ trust = "faithful"
    /\ ret = None
    /\ threads = Idle

\* GET /sort: the first visit, the redirect after a commit followed, or the
\* finished page asked for again
RunGet ==
    /\ page.kind \in {"none", "redirect", "all_sorted"}
    /\ Serve(Owner, [req EXCEPT !.op = "run"], NoParams, NoForm)

\* the first-game prompt answered with add_first
RunAddFirst ==
    /\ page.kind = "sort_first_game"
    /\ Serve(Owner, [req EXCEPT !.op = "run"], [add_first |-> "1"], NoForm)

\* the displayed question answered with the form it prescribes
RunAnswer(better) ==
    /\ page.kind = "sort_games"
    /\ Serve(Owner, [req EXCEPT !.op = "run", !.answered = req.answered + 1],
             NoParams, Prescribed(page, better))

NextRun ==
    \/ RunGet
    \/ RunAddFirst
    \/ \E better \in {"current", "comparison"} : RunAnswer(better)

SpecRun == InitRun /\ [][NextRun]_vars

\* what enables each step of the run: a page to leave that the step changes
RunStepsEnabled ==
    /\ page.kind \in {"none", "redirect"} =>
           sort_games(files, Owner, NoParams, NoForm).page # page
    /\ page.kind = "sort_first_game" =>
           sort_games(files, Owner, [add_first |-> "1"], NoForm).page # page
    /\ page.kind = "sort_games" =>
           \A better \in {"current", "comparison"} :
              sort_games(files, Owner, NoParams, Prescribed(page, better)).page # page
    /\ page.kind = "all_sorted" =>
           /\ req.op = "run"
           /\ sort_games(files, Owner, NoParams, NoForm) = [files |-> files, page |-> page]

\* the run of a user who follows every redirect, answers every question with
\* one of its two forms and every first-game prompt with add_first: weak
\* fairness of RunGet, RunAddFirst and RunAnswer, each written as
\* []<>~ENABLED <<A>>_vars \/ []<><<A>>_vars with ENABLED <<A>>_vars spelled out
\* as the page that enables the step (RunStepsEnabled)
SpecRunFair ==
    /\ InitRun
    /\ [][NextRun]_vars
    /\ []<>(page.kind \notin {"none", "redirect"}) \/ []<><<RunGet>>_vars
    /\ []<>(page.kind # "sort_first_game") \/ []<><<RunAddFirst>>_vars
    /\ []<>(page.kind # "sort_games")
          \/ []<><<\E better \in {"current", "comparison"} : RunAnswer(better)>>_vars

\* ================================================================== claims

\* s is ordered best first by the id order
IsOrdered(s) == \A i, j \in DOMAIN s : i < j => s[i].id < s[j].id

\* the request just served was a POST /sort that committed an insertion
Committed == req.op \in {"answer", "post"} /\ page.kind = "redirect"

\* C1: after any sequence of add_first, skip, insertion commits and unskips the
\* three lists share no id, no list holds an id twice, and together they hold
\* exactly the games the collection was populated with.
C1_Partition ==
    /\ \A i, j \in DOMAIN AllLists : i # j => AllLists[i].id # AllLists[j].id
    /\ Range(AllLists) = {Game(i) : i \in 1..NumGames}

\* C1 witness: a first game was added, a second one inserted by binary search,
\* and the third was skipped and has just been restored.
C1_Witness ==
    /\ req.op = "unskip" /\ req.moved = 1
    /\ Len(Sorted) = 2 /\ Len(Unsorted) = 1

\* C2: while every posted form is one the displayed question prescribed and
\* every answer follows one strict total order (here the id order), 'sorted'
\* is ordered by that order after every commit.
C2_SortedIsOrdered == trust = "faithful" => IsOrdered(Sorted)

\* C2 witness: the third game was placed by two faithful answers and all three
\* games are ranked.
C2_Witness ==
    /\ trust = "faithful" /\ Committed /\ req.op = "answer" /\ req.count = 2
    /\ IdSeq(Sorted) = <<1, 2, 3>>

\* C3 (the claim as stated): a game enters a non-empty 'sorted' only through a
\* form that the question displayed for that game prescribed; a form belonging
\* to another insertion step commits nothing.
C3_StaleFormCommitsNothing == Committed => req.prescribed

\* C4 (the claim as stated): when a question is on display and the next /sort
\* request carries no answer, the stored state is untouched and the same
\* question is presented again: same current game, comparison game, low, high.
C4_SameQuestionAgain ==
    [][(req'.op = "get" /\ page.kind = "sort_games")
         => /\ files' = files
            /\ page'.kind = "sort_games"
            /\ page'.current_game = page.current_game
            /\ page'.comparison_game = page.comparison_game
            /\ page'.low = page.low
            /\ page'.high = page.high]_vars

\* C5: the count shown with a question never exceeds the max_comparisons shown
\* with it, an insertion commits after at most max_comparisons(n) answered
\* questions (n the length of 'sorted' it started from), and for n = 8 the
\* bound is 4.
C5_CountWithinMax ==
    /\ page.kind = "sort_games" =>
          /\ page.current_comparison_count <= page.max_comparisons
          /\ (Len(Sorted) = 8 => page.max_comparisons = 4)
    /\ (Committed /\ req.op = "answer") =>
          req.count <= max_comparisons(Len(Sorted) - 1)

\* C5 witness: the fourth question of an insertion into eight ranked games.
C5_Witness ==
    /\ page.kind = "sort_games"
    /\ Len(Sorted) = 8
    /\ page.current_comparison_count = 4

\* C6 (the claim as stated): a skip request naming a game that is not the head
\* of 'unsorted' is rejected with an error and changes nothing.
C6_SkipOfNonHeadRejected ==
    [][(req'.op = "skip" /\ (Unsorted = <<>> \/ Unsorted[1].id # req'.id))
         => (files' = files /\ page'.kind = "error")]_vars

\* the first place of id x in the id list ids
FirstIndex(ids, x) == CHOOSE k \in DOMAIN ids : ids[k] = x /\ \A m \in 1..(k - 1) : ids[m] # x

\* C7: unskip_selected_games(username, ids) takes out of 'skipped' exactly the
\* games whose id is in ids, appends them to 'unsorted' in the order of ids,
\* keeps 'sorted', the other skipped games and the old 'unsorted' (a prefix)
\* as they were, ignores ids that are not skipped, and saves.
C7_UnskipMovesSelected ==
    [][req'.op = "unskip" =>
         LET before == Stored(Owner)
             after == load_data(files', Owner).data
             ids == req'.ids
             kept == Len(before.unsorted)
             moved == SubSeq(after.unsorted, kept + 1, Len(after.unsorted))
         IN  /\ files'[Owner].exists
             /\ after.sorted = before.sorted
             /\ after.skipped = SelectSeq(before.skipped, LAMBDA g : g.id \notin Range(ids))
             /\ Len(after.unsorted) >= kept
             /\ SubSeq(after.unsorted, 1, kept) = before.unsorted
             /\ Range(moved) = {g \in Range(before.skipped) : g.id \in Range(ids)}
             /\ \A i, j \in DOMAIN moved :
                   i < j => FirstIndex(ids, moved[i].id) < FirstIndex(ids, moved[j].id)
      ]_vars

\* C7 witness: ids <<3, 1>> restored games 3 and 1, in that order, behind the
\* game already waiting, and game 2 stayed skipped.
C7_Witness ==
    /\ req.op = "unskip" /\ req.ids = <<3, 1>> /\ req.moved = 2
    /\ Len(Unsorted) >= 2
    /\ IdSeq(SubSeq(Unsorted, Len(Unsorted) - 1, Len(Unsorted))) = <<3, 1>>

\* C8: the same unskip call made twice in a row leaves the stored state of the
\* first call: the second moves nothing.
C8_UnskipIdempotent ==
    [][(req'.op = "unskip" /\ req'.again) => (files' = files /\ req'.moved = 0)]_vars

\* C8 witness: a call that moved two games has been repeated.
C8_Witness == req.op = "unskip" /\ req.again /\ req.first_moved = 2

\* C9: load_data right after save_data(username, s) returns s in every field,
\* cursor included, whatever the file held before.
C9_SaveLoadRoundTrip ==
    (req.op = "load" /\ req.saved # None) =>
        (ret.ok /\ ret.data = req.saved.data)

\* C9 witness: a state with an active cursor was saved over an existing file
\* and loaded back.
C9_Witness ==
    /\ req.op = "load" /\ req.saved # None
    /\ req.saved.replaced
    /\ "cursor" \in DOMAIN req.saved.data
    /\ req.saved.data.cursor # None
    /\ ret.data.cursor = req.saved.data.cursor

\* C10: load_data never raises: without a file it returns the empty default
\* state, with a file it returns the state whose JSON text the file holds.
C10_LoadNeverErrors ==
    req.op = "load" =>
        /\ ret.ok
        /\ ~files[req.username].exists => ret.data = DefaultData
        /\ files[req.username].exists => json_dump(ret.data) = files[req.username].text

\* C10 witness: load_data of a user who has no file returned the default.
C10_Witness ==
    /\ req.op = "load"
    /\ ~files[req.username].exists
    /\ ret = [ok |-> TRUE, data |-> DefaultData]

\* C11: delete_data(username) leaves the user without stored state, so that
\* load_data returns the empty default; when nothing is stored (a first call
\* for an unknown user or a second call in a row) it changes nothing; and it
\* never changes what is stored for another user.
C11_DeleteIdempotent ==
    [][req'.op = "delete" =>
         /\ ~files'[req'.username].exists
         /\ load_data(files', req'.username) = [ok |-> TRUE, data |-> DefaultData]
         /\ \A u \in Users \ {req'.username} : files'[u] = files[u]
         /\ ~files[req'.username].exists => files' = files
      ]_vars

\* C11 witness: a user's file was deleted while another user has one.
C11_Witness ==
    /\ req.op = "delete" /\ req.existed
    /\ ~files[req.username].exists
    /\ \E u \in Users \ {req.username} : files[u].exists

\* C12: with 'sorted' empty and 'unsorted' non-empty, a /sort request carrying
\* add_first (whatever else it carries) ranks the head with no comparison:
\* 'sorted' becomes the one-game list of the former head, 'unsorted' its
\* former tail in the same order, 'skipped' stays, and the new state is saved.
C12_AddFirstCommitsHead ==
    [][(/\ req'.op = "request" /\ "add_first" \in req'.args
        /\ Sorted = <<>> /\ Unsorted # <<>>) =>
         LET before == Stored(Owner)
             after == load_data(files', Owner).data
         IN  /\ page'.kind = "redirect"
             /\ files' # files
             /\ after.sorted = <<before.unsorted[1]>>
             /\ after.unsorted = Tail(before.unsorted)
             /\ after.skipped = before.skipped
      ]_vars

\* C12 witness: unsorted = [X, Y, Z] became sorted = [X], unsorted = [Y, Z].
C12_Witness ==
    /\ req.op = "request" /\ req.args = {"add_first"}
    /\ page.kind = "redirect"
    /\ Len(Sorted) = 1 /\ Len(Unsorted) = NumGames - 1 /\ Skipped = <<>>

\* C13: sort_games asks no comparison question while 'unsorted' or 'sorted' is
\* empty, whatever the request carries. With 'unsorted' empty every request
\* reports that all games are sorted and changes nothing. With 'sorted' empty
\* add_first ranks the head, otherwise skip sets the head aside, and any other
\* request shows the first-game prompt and changes nothing.
C13_NoQuestionWithoutBothLists ==
    [][req'.op = "request" =>
         LET before == Stored(Owner)
             after == load_data(files', Owner).data
         IN  /\ page'.kind = "sort_games" =>
                   (before.unsorted # <<>> /\ before.sorted # <<>>)
             /\ before.unsorted = <<>> =>
                   (page'.kind = "all_sorted" /\ files' = files)
             /\ (before.unsorted # <<>> /\ before.sorted = <<>>) =>
                   IF "add_first" \in req'.args
                   THEN /\ page'.kind = "redirect"
                        /\ after = [before EXCEPT !.sorted = <<before.unsorted[1]>>,
                                                  !.unsorted = Tail(before.unsorted)]
                   ELSE IF "skip" \in req'.args
                   THEN /\ page'.kind = "redirect"
                        /\ after = [before EXCEPT
                                      !.skipped = Append(before.skipped, before.unsorted[1]),
                                      !.unsorted = Tail(before.unsorted)]
                   ELSE /\ page' = FirstGamePage(before.unsorted[1])
                        /\ files' = files
      ]_vars

\* C13 witness: with 'sorted' empty a request carrying low > high and no
\* add_first or skip got the first-game prompt.
C13_Witness ==
    /\ req.op = "request" /\ req.args = {}
    /\ req.form # NoForm /\ req.form.low > req.form.high
    /\ Sorted = <<>> /\ Len(Unsorted) = 2
    /\ page.kind = "sort_first_game"

\* C14: a /sort request that renders a comparison question or the first-game
\* prompt saves nothing and shows the stored head of 'unsorted'; a question is
\* rendered only with low <= high; and the head leaves 'unsorted' only together
\* with a redirect, through add_first, skip or a commit with low > high.
C14_HeadStaysUntilCommit ==
    [][req'.op = "request" =>
         LET before == Stored(Owner)
             after == load_data(files', Owner).data
             low == FormGet(req'.form, "low", 0)
             high == FormGet(req'.form, "high", Len(before.sorted) - 1)
         IN  /\ page'.kind = "sort_games" =>
                   /\ files' = files
                   /\ low <= high
                   /\ page'.current_game = before.unsorted[1]
             /\ page'.kind = "sort_first_game" =>
                   /\ files' = files
                   /\ page'.first_game = before.unsorted[1]
             /\ after.unsorted # before.unsorted =>
                   /\ page'.kind = "redirect"
                   /\ after.unsorted = Tail(before.unsorted)
                   /\ \/ before.sorted = <<>> /\ "add_first" \in req'.args
                      \/ "skip" \in req'.args
                      \/ before.sorted # <<>> /\ low > high
      ]_vars

\* C14 witness: a question was rendered for a posted low <= high, about the
\* stored head, against the second of two ranked games.
C14_Witness ==
    /\ req.op = "request" /\ req.args = {}
    /\ req.form # NoForm /\ req.form.low = 1 /\ req.form.high = 1
    /\ page.kind = "sort_games"
    /\ Len(Unsorted) = 1 /\ page.current_game = Unsorted[1]

\* C15 (the claim as stated): for a user who has games in 'sorted' or 'skipped'
\* no POST /load that the application leads to puts into 'unsorted' a game
\* that is already in 'sorted' or 'skipped'.
C15_PopulatedOnce ==
    [][(req'.op = "post_load" /\ (Sorted # <<>> \/ Skipped # <<>>)) =>
         LET after == load_data(files', Owner).data
         IN  Ids(after.unsorted) \cap (Ids(after.sorted) \cup Ids(after.skipped)) = {}
      ]_vars

C17_SaveIsAtomic ==
    [][\A t \in Threads :
         (/\ req'.op = "load"
          /\ threads[t].pc = "writing"
          /\ threads[t].username = req'.username) =>
             /\ ret'.ok
             /\ \/ ret'.data = threads[t].data
                \/ ret'.data = load_data([files EXCEPT ![req'.username] = threads[t].old],
                                         req'.username).data
      ]_vars

\* C18 (the claim as stated): when two state-changing requests for one user
\* have both been served, however they interleaved, the stored state is what
\* serving them one after the other, in one of the two orders, leaves, and no
\* id is stored twice.
C18_NoLostUpdate ==
    (\A t \in Threads : threads[t].pc = "done") =>
        LET a == threads["t1"]
            b == threads["t2"]
            initial == IF a.first THEN a.seen ELSE b.seen
            ab == Handle(b.op, Handle(a.op, initial, Owner).files, Owner).files
            ba == Handle(a.op, Handle(b.op, initial, Owner).files, Owner).files
        IN  /\ files \in {ab, ba}
            /\ \A i, j \in DOMAIN AllLists : i # j => AllLists[i].id # AllLists[j].id

\* the values the specification lists for max_comparisons
KnownMax ==
    (0 :> 0) @@ (1 :> 1) @@ (2 :> 2) @@ (3 :> 2) @@ (4 :> 3) @@ (7 :> 3)
    @@ (8 :> 4) @@ (15 :> 4) @@ (16 :> 5)

\* C19: max_comparisons(n) is the least k with 2^k >= n + 1, for every n >= 0,
\* and takes the listed values at 0, 1, 2, 3, 4, 7, 8, 15 and 16.
C19_MaxComparisons ==
    req.op = "max_comparisons" =>
        /\ ret \in Nat
        /\ Pow2(ret) >= req.n + 1
        /\ \A k \in 0..(ret - 1) : Pow2(k) < req.n + 1
        /\ req.n \in DOMAIN KnownMax => ret = KnownMax[req.n]

\* C19 witness: max_comparisons(16) returned 5.
C19_Witness == req.op = "max_comparisons" /\ req.n = 16 /\ ret = 5

RECURSIVE SumMax(_, _)
\* the sum of max_comparisons(sorted_length + i) over i in [0, unsorted_length)
SumMax(sorted_length, unsorted_length) ==
    IF unsorted_length = 0 THEN 0
    ELSE SumMax(sorted_length, unsorted_length - 1)
         + max_comparisons(sorted_length + unsorted_length - 1)

\* C20: total_remaining_comparisons(s, u) is the sum of max_comparisons(s + i)
\* for i in [0, u), is 0 for u = 0, and does not decrease when s or u grows.
C20_TotalRemaining ==
    req.op = "total_remaining" =>
        /\ ret = SumMax(req.sorted_length, req.unsorted_length)
        /\ req.unsorted_length = 0 => ret = 0
        /\ ret <= total_remaining_comparisons(req.sorted_length + 1, req.unsorted_length)
        /\ ret <= total_remaining_comparisons(req.sorted_length, req.unsorted_length + 1)

\* C20 witness: three games waiting behind eight ranked ones need at most
\* 4 + 4 + 4 comparisons.
C20_Witness ==
    /\ req.op = "total_remaining"
    /\ req.sorted_length = 8 /\ req.unsorted_length = 3
    /\ ret = 12

\* the questions the insertion on display may still ask, the displayed one
\* included, when every answer takes the longer side
QuestionsLeft(p) == CeilLog2(p.high - p.low + 2)

\* C21: in a run without skip or unskip that starts with the head of
\* 'unsorted' not yet compared, the answers given never outnumber
\* total_remaining_comparisons(len(sorted), len(unsorted)) of the start; at
\* every point the answers given plus the most that can still follow stay
\* within it; and the answer "sorted[mid] is better" always leaves exactly one
\* question fewer on the longest path, so the bound is reached.
C21_WorstCaseBound ==
    req.op \in {"start", "run"} =>
        /\ req.answered <= req.bound
        /\ IF page.kind = "sort_games"
           THEN /\ req.answered + QuestionsLeft(page)
                     + total_remaining_comparisons(Len(Sorted) + 1, Len(Unsorted) - 1)
                   <= req.bound
                /\ page.low = 0 /\ page.high = Len(Sorted) - 1 =>
                       QuestionsLeft(page) = max_comparisons(Len(Sorted))
                /\ 1 + CeilLog2(page.high - page.mid + 1) = QuestionsLeft(page)
                /\ CeilLog2(page.mid - page.low + 1) < QuestionsLeft(page)
           ELSE req.answered + total_remaining_comparisons(Len(Sorted), Len(Unsorted))
                   <= req.bound

\* C21 witness: a run from NumGames ranked and NumGames waiting games ended
\* after exactly as many answers as total_remaining_comparisons gave.
C21_Witness ==
    /\ req.op = "run"
    /\ Len(req.start.sorted) = NumGames /\ Len(req.start.unsorted) = NumGames
    /\ Unsorted = <<>>
    /\ req.bound > NumGames
    /\ req.answered = req.bound

\* request r, served on the stored lists `before`, reaches the binary-search
\* step of sort_games: 'unsorted' and 'sorted' hold games and r asks no skip
ReachesSearch(r, before) ==
    /\ r.op = "request" /\ "skip" \notin r.args
    /\ before.unsorted # <<>> /\ before.sorted # <<>>

\* low and high as the binary-search step reads them from the form of r
LowOf(r) == FormGet(r.form, "low", 0)
HighOf(r, before) == FormGet(r.form, "high", Len(before.sorted) - 1)

\* C22: when a request reaches the binary-search step with low > high and
\* 0 <= low <= len(sorted), the head of 'unsorted' leaves 'unsorted' and
\* becomes sorted[low]; the games before low keep their index, the games from
\* low on move one to the right, 'skipped' stays, and the new state is saved.
C22_CommitInsertsAtLow ==
    [][LET before == Stored(Owner)
           after == load_data(files', Owner).data
           low == LowOf(req')
           n == Len(before.sorted)
       IN  (/\ ReachesSearch(req', before)
            /\ low > HighOf(req', before)
            /\ 0 <= low /\ low <= n) =>
              /\ page'.kind = "redirect"
              /\ after.unsorted = Tail(before.unsorted)
              /\ Len(after.sorted) = n + 1
              /\ after.sorted[low + 1] = before.unsorted[1]
              /\ \A i \in 1..low : after.sorted[i] = before.sorted[i]
              /\ \A i \in (low + 1)..n : after.sorted[i + 1] = before.sorted[i]
              /\ after.skipped = before.skipped
              /\ files' = save_data(files, Owner, after)
              /\ files' # files
      ]_vars

\* C22 witness: low = 1 > high = 0 put the last waiting game between two
\* ranked ones.
C22_Witness ==
    /\ req.op = "request" /\ req.args = {}
    /\ req.form # NoForm /\ req.form.low = 1 /\ req.form.high = 0
    /\ page.kind = "redirect"
    /\ Len(Sorted) = NumGames /\ Unsorted = <<>>

\* C23: every question sort_games presents is unsorted[0] against sorted[mid]
\* with mid = floor((low + high) / 2), where low and high are the posted ones
\* or, for each one not posted, 0 and len(sorted) - 1; a mid posted with the
\* form changes nothing, so the question depends on the stored lists, low and
\* high alone.
C23_QuestionFromLowHigh ==
    [][(req'.op = "ask" /\ page'.kind = "sort_games") =>
         LET before == Stored(Owner)
             low == LowOf(req')
             high == HighOf(req', before)
             mid == (low + high) \div 2
         IN  /\ before.unsorted # <<>> /\ before.sorted # <<>>
             /\ page'.current_game = before.unsorted[1]
             /\ page'.low = low /\ page'.high = high
             /\ page'.mid = mid
             /\ 2 * mid <= low + high /\ low + high <= 2 * mid + 1
             /\ page'.comparison_game = PyGetItem(before.sorted, mid).v
             /\ req'.form = NoForm => (low = 0 /\ high = Len(before.sorted) - 1)
             /\ files' = files
      ]_vars

\* C23 witness: a form with low = 0, high = 1 and a mid of 1 got the question
\* against sorted[0].
C23_Witness ==
    /\ req.op = "ask"
    /\ DOMAIN req.form = {"low", "high", "mid"}
    /\ req.form.low = 0 /\ req.form.high = 1 /\ req.form.mid = 1
    /\ page.kind = "sort_games" /\ page.mid = 0
    /\ page.comparison_game = Sorted[1]
    /\ page.current_game = Unsorted[1]

\* C24 (the claim as stated): every request that reaches the binary-search
\* step has 0 <= low <= high + 1 <= len(sorted); the head is committed exactly
\* when low > high, a question is asked exactly when low <= high.
C24_CursorInvariant ==
    [][LET before == Stored(Owner)
           low == LowOf(req')
           high == HighOf(req', before)
       IN  ReachesSearch(req', before) =>
              /\ 0 <= low /\ low <= high + 1 /\ high + 1 <= Len(before.sorted)
              /\ page'.kind = "redirect" <=> low > high
              /\ page'.kind = "sort_games" <=> low <= high
      ]_vars

\* the number of positions of 'sorted' question p still leaves open
Width(p) == p.high - p.low + 1

\* C25: an answer to the displayed question either brings the next question of
\* the same game, with high' = mid - 1 and low unchanged ("current game is
\* better") or low' = mid + 1 and high unchanged ("sorted[mid] is better"), so
\* low does not decrease, high does not increase and the width high - low + 1
\* strictly decreases, or it commits the game, which happens once no position
\* is left open; the count of questions asked plus the width never exceeds
\* len(sorted) + 1, so the commit comes after at most len(sorted) answers.
C25_AnswersNarrow ==
    [][(req'.op = "answer" /\ page.kind = "sort_games") =>
         LET before == Stored(Owner)
             after == load_data(files', Owner).data
         IN  /\ Width(page) >= 1
             /\ page.current_comparison_count + Width(page) <= Len(before.sorted) + 1
             /\ \/ /\ page'.kind = "sort_games"
                   /\ page'.current_game = page.current_game
                   /\ \/ page'.low = page.low /\ page'.high = page.mid - 1
                      \/ page'.low = page.mid + 1 /\ page'.high = page.high
                   /\ page'.low >= page.low /\ page'.high <= page.high
                   /\ 1 <= Width(page') /\ Width(page') < Width(page)
                   /\ page'.current_comparison_count = page.current_comparison_count + 1
                   /\ files' = files
                \/ /\ page'.kind = "redirect"
                   /\ page.mid - 1 < page.low \/ page.mid + 1 > page.high
                   /\ after.unsorted = Tail(before.unsorted)
                   /\ Len(after.sorted) = Len(before.sorted) + 1
      ]_vars

\* C25 witness: after two answers both bounds have moved inwards.
C25_Witness ==
    /\ req.op = "answer"
    /\ page.kind = "sort_games"
    /\ page.current_comparison_count = 3
    /\ page.low > 0 /\ page.high < Len(Sorted) - 1

\* C26: a request that posts low > high while 'sorted' and 'unsorted' both
\* hold games, with no question on display, is asked nothing: the head of
\* 'unsorted' is inserted into 'sorted' by sorted.insert(low, head) (index low
\* when low is a position of the list), removed from 'unsorted', the state is
\* saved and the response is the redirect.
C26_LowAboveHighCommits ==
    [][LET before == Stored(Owner)
           after == load_data(files', Owner).data
           low == LowOf(req')
       IN  (/\ ReachesSearch(req', before)
            /\ page.kind = "none"
            /\ req'.form # NoForm
            /\ low > HighOf(req', before)) =>
              /\ page'.kind # "sort_games"
              /\ page' = RedirectPage
              /\ after.sorted = PyInsert(before.sorted, low, before.unsorted[1])
              /\ (0 <= low /\ low <= Len(before.sorted)) =>
                     after.sorted[low + 1] = before.unsorted[1]
              /\ after.unsorted = Tail(before.unsorted)
              /\ after.skipped = before.skipped
              /\ files' = save_data(files, Owner, after)
      ]_vars

\* C26 witness: low = 0 > high = -1, posted with one game ranked and two
\* waiting, was answered by the redirect and two games are ranked.
C26_Witness ==
    /\ req.op = "request" /\ "skip" \notin req.args
    /\ req.form # NoForm /\ req.form.low = 0 /\ req.form.high = 0 - 1
    /\ page.kind = "redirect"
    /\ Len(Sorted) = 2 /\ Len(Unsorted) = NumGames - 2

\* C27 (the claim as stated): whatever low and high a request brings to the
\* binary-search step, the request does not fail, a question is asked about a
\* mid with 0 <= mid <= len(sorted) - 1 and a commit inserts at a low with
\* 0 <= low <= len(sorted).
C27_IndexAlwaysValid ==
    [][LET before == Stored(Owner)
           low == LowOf(req')
           high == HighOf(req', before)
           mid == (low + high) \div 2
       IN  ReachesSearch(req', before) =>
              /\ page'.kind \in {"sort_games", "redirect"}
              /\ page'.kind = "sort_games" =>
                     (0 <= mid /\ mid <= Len(before.sorted) - 1)
              /\ page'.kind = "redirect" =>
                     (0 <= low /\ low <= Len(before.sorted))
      ]_vars

\* C28 (the claim as stated): a stored state without the 'skipped' list is
\* read by load_data as one with an empty 'skipped'; a skip request on it moves
\* the head of 'unsorted' into a one-game 'skipped' and saves; and
\* unskip_selected_games on it completes and moves nothing.
C28_OlderShapeDefaulted ==
    [][LET before == Stored(Owner)
           after == load_data(files', Owner).data
       IN  "skipped" \notin DOMAIN before =>
              /\ req'.op = "load" =>
                     /\ ret'.ok
                     /\ "skipped" \in DOMAIN ret'.data
                     /\ ret'.data.skipped = <<>>
              /\ (req'.op = "skip" /\ before.unsorted # <<>>) =>
                     /\ page' = RedirectPage
                     /\ "skipped" \in DOMAIN after
                     /\ after.skipped = <<before.unsorted[1]>>
                     /\ after.unsorted = Tail(before.unsorted)
              /\ req'.op = "unskip" =>
                     /\ page' = RedirectPage
                     /\ after.unsorted = before.unsorted
                     /\ after.sorted = before.sorted
      ]_vars

\* C29: in a run that starts with 'unsorted' non-empty, where every question
\* is answered with a prescribed form, every first-game prompt with add_first
\* and nothing is skipped or unskipped, eventually and from then on
\* 'unsorted' is empty, 'sorted' holds exactly the games that were in 'sorted'
\* or 'unsorted' at the start, each once, 'skipped' is as at the start, and
\* /sort answers that all games are sorted.
C29_Completion ==
    <>[](/\ Unsorted = <<>>
         /\ Ids(Sorted) = Ids(req.start.sorted) \cup Ids(req.start.unsorted)
         /\ Len(Sorted) = Len(req.start.sorted) + Len(req.start.unsorted)
         /\ Skipped = req.start.skipped
         /\ page = AllSortedPage)

\* C29 witness: a run that started with NumGames waiting games and none
\* ranked is told that all games are sorted, with NumGames ranked.
C29_Witness ==
    /\ req.op = "run"
    /\ req.start.sorted = <<>> /\ Len(req.start.unsorted) = NumGames
    /\ page = AllSortedPage
    /\ Unsorted = <<>> /\ Len(Sorted) = NumGames
====
